---- MODULE Spec2Model ----
(***************************************************************************)
(* A model of the GraphQL client of src/graphql.go: Request construction   *)
(* (NewRequest, Var, File, Header), Client.Run with its pre-flight checks  *)
(* and dispatch, the three encoders (runWithJSON, runWithPostFields,       *)
(* runMultipartRequestSpec), the shared makeRequest routine and the        *)
(* decoding of the response envelope.                                      *)
(*                                                                         *)
(* Two callers, "A" and "B", share one Client.  Under Spec caller "A"      *)
(* builds an arbitrary Request and runs it once; under SpecConc both       *)
(* callers run prepared Requests concurrently.                             *)
(*                                                                         *)
(* Assumed of the libraries the code calls: writes to the in-memory        *)
(* multipart writer and json encoding of the variables do not fail, and    *)
(* the endpoint parses as a URL (http.NewRequest succeeds).                *)
(***************************************************************************)
EXTENDS Integers, Sequences, FiniteSets, TLC

\* ------------------------------------------------------------------ bounds
MaxFiles == 3      \* files attached to one Request
MaxErrs == 2       \* members of the errors sequence of a response

\* --------------------------------------------------------- input universes
Procs == {"A", "B"}
QueryOf(p) == IF p = "A" THEN "query{a}" ELSE "query{b}"
VarNames == {"key", "id"}
VarValues == {"value"}
FieldNames == {"file", "doc"}
FileNames == {"a.txt"}
RawKeys == <<"content-type", "Accept", "X-Id">>
HeaderValues == {"text/plain"}
Statuses == {200, 201, 500}
Messages == {"bad", "worse"}
DataValues == {"none", "x1"}

StatusOK == 200
JSONContentType == "application/json; charset=utf-8"
MultipartContentType == "multipart/form-data; boundary=b"

\* ------------------------------------------------------- library functions
\* textproto.CanonicalMIMEHeaderKey, on the keys of RawKeys
CanonicalMIMEHeaderKey(k) ==
    IF k = "content-type" THEN "Content-Type" ELSE k

CanonKeys == {CanonicalMIMEHeaderKey(RawKeys[i]) : i \in 1..Len(RawKeys)}
             \cup {"Content-Type", "Accept"}

EmptyHeader == [k \in CanonKeys |-> <<>>]

\* http.Header.Set: the key's values become the single value v
HeaderSet(h, k, v) == [h EXCEPT ![CanonicalMIMEHeaderKey(k)] = <<v>>]

\* http.Header.Add: v is appended to the key's values
HeaderAdd(h, k, v) ==
    [h EXCEPT ![CanonicalMIMEHeaderKey(k)] = Append(@, v)]

\* http.Header.Get: the first value of the key, "" when there is none
HeaderGet(h, k) ==
    IF h[CanonicalMIMEHeaderKey(k)] = <<>> THEN ""
    ELSE Head(h[CanonicalMIMEHeaderKey(k)])

Digits == <<"0", "1", "2", "3", "4", "5", "6", "7", "8", "9">>

\* strconv.Itoa on the naturals
RECURSIVE Itoa(_)
Itoa(n) ==
    IF n < 10 THEN Digits[n + 1]
    ELSE Itoa(n \div 10) \o Digits[(n % 10) + 1]

\* a Go map as a set of <<key, value>> pairs with unique keys
MapPut(m, k, v) == {e \in m : e[1] # k} \cup {<<k, v>>}

\* ------------------------------------------------------------- data types
\* req.vars: nil until the first Var call
NilVars == [isNil |-> TRUE, kv |-> {}]
LenVars(v) == Cardinality(v.kv)

\* the JSON values the encoders write
NoJSON == [shape |-> "", query |-> "", vars |-> NilVars, n |-> 0, map |-> {}]

\* one element of a request body
NoPart == [name |-> "", filename |-> "", text |-> "", src |-> 0, json |-> NoJSON]

EmptyBody == [enc |-> "none", parts |-> <<>>]

\* Error values returned by Run
Err(kind, status, errors) == [kind |-> kind, status |-> status, errors |-> errors]
NoErr == Err("nil", 0, <<>>)

\* NewRequest
NewRequest(q) ==
    [q |-> q, vars |-> NilVars, files |-> <<>>,
     Header |-> [i \in 1..Len(RawKeys) |-> <<>>],
     body |-> EmptyBody, contentType |-> ""]

\* Request.Var
WithVar(r, key, value) ==
    [r EXCEPT !.vars = [isNil |-> FALSE, kv |-> MapPut(@.kv, key, value)]]

\* Request.File; the byte source of the i-th file is source i
WithFile(r, fieldname, filename) ==
    [r EXCEPT !.files = Append(@, [Field |-> fieldname, Name |-> filename,
                                   R |-> Len(@) + 1])]

\* NewClient with the options UseMultipartForm, UseMultipartRequestSpec and
\* ImmediatelyCloseReqBody applied or not
NewClient(form, spec, close) ==
    [endpoint |-> "https://host/graphql",
     useMultipartForm |-> form,
     useMultipartRequestSpec |-> spec,
     closeReq |-> close]

VARIABLES
    c,          \* the shared Client
    req,        \* req[p]: the Request caller p passes to Run
    ctxDone,    \* ctxDone[p]: p's context is cancelled
    pc,         \* pc[p]: where p's call stands
    used,       \* used[p]: the encoders p's call has entered
    fi,         \* fi[p]: the index i of the encoder's loop over req.files
    w,          \* w[p]: the parts written to the call's local requestBody
    reads,      \* reads[p]: the byte sources read so far, in order
    calls,      \* calls[p]: the HTTP requests handed to the transport
    lastRes,    \* lastRes[p]: the response the transport gave
    target,     \* target[p]: the caller's result target
    err         \* err[p]: what Run returned

vars == <<c, req, ctxDone, pc, used, fi, w, reads, calls, lastRes, target, err>>

NoRes == [ok |-> FALSE, status |-> 0, kind |-> "none", data |-> "none", errors |-> <<>>]

\* the responses the transport can give: a transport error, or a status with
\* a body that cannot be read, is not JSON, is the JSON literal null, or is
\* an envelope {data, errors}
RECURSIVE SeqsUpTo(_, _)
SeqsUpTo(S, n) ==
    IF n = 0 THEN {<<>>}
    ELSE SeqsUpTo(S, n - 1)
         \cup {Append(s, x) : s \in {t \in SeqsUpTo(S, n - 1) : Len(t) = n - 1}, x \in S}

Responses ==
    {[NoRes EXCEPT !.kind = "transport-error"]}
    \cup {[ok |-> TRUE, status |-> s, kind |-> k, data |-> "none", errors |-> <<>>] :
            s \in Statuses, k \in {"unreadable", "invalid", "null"}}
    \cup {[ok |-> TRUE, status |-> s, kind |-> "envelope", data |-> d, errors |-> e] :
            s \in Statuses, d \in DataValues, e \in SeqsUpTo(Messages, MaxErrs)}

\* ------------------------------------------------------------ Client.Run
\* PreFlight without the look at ctx.Done()
PreFlightNoCtx(cl, r, done) ==
    IF Len(r.files) > 0
       /\ ~(cl.useMultipartForm \/ cl.useMultipartRequestSpec)
    THEN Err("cannot send files with PostFields option", 0, <<>>)
    ELSE NoErr

\* PreFlight without the check of the files against the modes
PreFlightNoFiles(cl, r, done) ==
    IF done THEN Err("context canceled", 0, <<>>) ELSE NoErr

\* Run's pre-flight checks: the error Run returns before dispatching, if any
PreFlight(cl, r, done) ==
    IF done THEN Err("context canceled", 0, <<>>)
    ELSE IF Len(r.files) > 0
            /\ ~(cl.useMultipartForm \/ cl.useMultipartRequestSpec)
         THEN Err("cannot send files with PostFields option", 0, <<>>)
    ELSE NoErr

\* Dispatch with the two multipart checks in the other order
DispatchSpecFirst(cl, r) ==
    IF cl.useMultipartRequestSpec /\ Len(r.files) > 0 THEN "spec"
    ELSE IF cl.useMultipartForm THEN "form"
    ELSE "json"

\* Run's dispatch: the encoder Run calls
Dispatch(cl, r) ==
    IF cl.useMultipartForm THEN "form"
    ELSE IF cl.useMultipartRequestSpec /\ Len(r.files) > 0 THEN "spec"
    ELSE "json"

\* ----------------------------------------------------------- runWithJSON
\* requestBodyObj, encoded into the local requestBody
runWithJSONBody(r) ==
    [enc |-> "json",
     parts |-> <<[NoPart EXCEPT !.json =
                    [NoJSON EXCEPT !.shape = "query+variables",
                                   !.query = r.q, !.vars = r.vars]]>>]

\* the custom headers of r added to h, key by key (the canonical forms of the
\* raw keys differ, so the map's iteration order does not show)
RECURSIVE AddValues(_, _, _, _)
AddValues(h, k, values, n) ==
    IF n = 0 THEN h
    ELSE HeaderAdd(AddValues(h, k, values, n - 1), k, values[n])

RECURSIVE AddHeaders(_, _, _)
AddHeaders(h, r, i) ==
    IF i = 0 THEN h
    ELSE AddValues(AddHeaders(h, r, i - 1), RawKeys[i], r.Header[i], Len(r.Header[i]))

\* the header of the HTTP request runWithJSON sends
runWithJSONHeader(r) ==
    AddHeaders(HeaderSet(HeaderSet(EmptyHeader, "Content-Type", JSONContentType),
                         "Accept", JSONContentType),
               r, Len(RawKeys))

\* runWithJSONDecode telling success from failure by the 2xx range
runWithJSONDecode2xx(res, tgt) ==
    IF ~res.ok THEN [err |-> Err("transport", 0, <<>>), target |-> tgt]
    ELSE IF res.kind = "unreadable"
         THEN [err |-> Err("reading body", 0, <<>>), target |-> tgt]
    ELSE IF res.kind = "invalid"
         THEN IF res.status < 200 \/ res.status > 299
              THEN [err |-> Err("non-200 status code", res.status, <<>>), target |-> tgt]
              ELSE [err |-> Err("decoding response", 0, <<>>), target |-> tgt]
    ELSE IF res.kind = "null"
         THEN [err |-> Err("panic: nil pointer dereference", 0, <<>>), target |-> tgt]
    ELSE [err |-> IF Len(res.errors) > 0 THEN Err("graphql errors", 0, res.errors)
                  ELSE NoErr,
          target |-> IF res.data = "none" THEN tgt ELSE res.data]

\* runWithJSON from the transport's answer on: the error returned and the
\* value left in the result target
runWithJSONDecode(res, tgt) ==
    IF ~res.ok THEN [err |-> Err("transport", 0, <<>>), target |-> tgt]
    ELSE IF res.kind = "unreadable"
         THEN [err |-> Err("reading body", 0, <<>>), target |-> tgt]
    ELSE IF res.kind = "invalid"
         THEN IF res.status # StatusOK
              THEN [err |-> Err("non-200 status code", res.status, <<>>), target |-> tgt]
              ELSE [err |-> Err("decoding response", 0, <<>>), target |-> tgt]
    ELSE IF res.kind = "null"
         \* Decode sets gr to nil and len(gr.Errors) dereferences it
         THEN [err |-> Err("panic: nil pointer dereference", 0, <<>>), target |-> tgt]
    ELSE [err |-> IF Len(res.errors) > 0 THEN Err("graphql errors", 0, res.errors)
                  ELSE NoErr,
          target |-> IF res.data = "none" THEN tgt ELSE res.data]

\* ----------------------------------------------------- runWithPostFields
\* the fields written before the files: query, and variables if any are set
runWithPostFieldsHead(r) ==
    <<[NoPart EXCEPT !.name = "query", !.text = r.q]>>
    \o (IF LenVars(r.vars) > 0
        THEN <<[NoPart EXCEPT !.name = "variables",
                              !.json = [NoJSON EXCEPT !.shape = "variables",
                                                      !.vars = r.vars]]>>
        ELSE <<>>)

\* the form file part of file f, holding the bytes of its source
FormFile(f) == [NoPart EXCEPT !.name = f.Field, !.filename = f.Name, !.src = f.R]

\* LoopFile with the loop index dropped
LoopFileFirst(r, i) == r.files[1]

\* req.files[i] of the encoders' loops over the files
LoopFile(r, i) == r.files[i]

\* -------------------------------------------- runMultipartRequestSpec
\* SpecVarsCheck letting variables through
SpecVarsCheckNone(r) == NoErr

\* the guard of runMultipartRequestSpec
SpecVarsCheck(r) ==
    IF LenVars(r.vars) > 0
    THEN Err("variables doesn't supported due to the multipart request spec", 0, <<>>)
    ELSE NoErr

\* the loop of fillMultipartRequestSpecQuery over the first k files
RECURSIVE FillMap(_, _)
FillMap(files, k) ==
    IF k = 0 THEN {}
    ELSE MapPut(FillMap(files, k - 1), files[k].Field,
                <<"variables.files." \o Itoa(k - 1)>>)

fillMultipartRequestSpecQuery(r) ==
    LET n == Len(r.files) IN
    IF n = 0
    THEN [NoJSON EXCEPT !.shape = "empty", !.query = r.q]
    ELSE IF n = 1
    THEN [NoJSON EXCEPT !.shape = "file", !.query = r.q, !.n = 1,
                        !.map = MapPut({}, r.files[1].Field, <<"variables.file">>)]
    ELSE [NoJSON EXCEPT !.shape = "files", !.query = r.q, !.n = n,
                        !.map = FillMap(r.files, n)]

\* the operations and map fields written before the files
runMultipartRequestSpecHead(r) ==
    LET query == fillMultipartRequestSpecQuery(r) IN
    <<[NoPart EXCEPT !.name = "operations", !.json = [query EXCEPT !.map = {}]],
      [NoPart EXCEPT !.name = "map",
                     !.json = [NoJSON EXCEPT !.shape = "map", !.map = query.map]]>>

\* the redundant text field written after the part of file f
SpecField(f) == [NoPart EXCEPT !.name = f.Field, !.text = "@" \o f.Name]

\* ----------------------------------------------------------- makeRequest
\* StagedOn with one staging place for all calls
StagedOnShared(p) == "A"

\* the Request on which the call of caller p stages body and contentType:
\* the Request passed to it
StagedOn(p) == p

\* the custom headers of r set on h, each replacing the key's values
RECURSIVE SetHeaders(_, _, _)
SetHeaders(h, r, i) ==
    IF i = 0 THEN h
    ELSE IF r.Header[i] = <<>> THEN SetHeaders(h, r, i - 1)
    ELSE HeaderSet(SetHeaders(h, r, i - 1), RawKeys[i], r.Header[i][Len(r.Header[i])])

\* makeRequestHeader with Header.Set in place of Header.Add
makeRequestHeaderSet(r) ==
    SetHeaders(HeaderSet(HeaderSet(EmptyHeader, "Content-Type", r.contentType),
                         "Accept", JSONContentType),
               r, Len(RawKeys))

\* the header of the HTTP request makeRequest sends
makeRequestHeader(r) ==
    AddHeaders(HeaderSet(HeaderSet(EmptyHeader, "Content-Type", r.contentType),
                         "Accept", JSONContentType),
               r, Len(RawKeys))

\* makeRequestDecode returning before the look at gr.Errors
makeRequestDecodeNoErrors(res, tgt) ==
    IF ~res.ok THEN [err |-> Err("transport", 0, <<>>), target |-> tgt]
    ELSE IF res.kind = "unreadable"
         THEN [err |-> Err("reading body", 0, <<>>), target |-> tgt]
    ELSE IF res.kind = "invalid"
         THEN IF res.status # StatusOK
              THEN [err |-> Err("non-200 status code", res.status, <<>>), target |-> tgt]
              ELSE [err |-> Err("decoding response", 0, <<>>), target |-> tgt]
    ELSE IF res.kind = "null"
         THEN [err |-> Err("panic: nil pointer dereference", 0, <<>>), target |-> tgt]
    ELSE [err |-> NoErr,
          target |-> IF res.data = "none" THEN tgt ELSE res.data]

\* makeRequest from the transport's answer on
makeRequestDecode(res, tgt) ==
    IF ~res.ok THEN [err |-> Err("transport", 0, <<>>), target |-> tgt]
    ELSE IF res.kind = "unreadable"
         THEN [err |-> Err("reading body", 0, <<>>), target |-> tgt]
    ELSE IF res.kind = "invalid"
         THEN IF res.status # StatusOK
              THEN [err |-> Err("non-200 status code", res.status, <<>>), target |-> tgt]
              ELSE [err |-> Err("decoding response", 0, <<>>), target |-> tgt]
    ELSE IF res.kind = "null"
         THEN [err |-> Err("panic: nil pointer dereference", 0, <<>>), target |-> tgt]
    ELSE [err |-> IF Len(res.errors) > 0 THEN Err("graphql errors", 0, res.errors)
                  ELSE NoErr,
          target |-> IF res.data = "none" THEN tgt ELSE res.data]

\* the HTTP request handed to the transport
HTTPRequest(cl, header, body) ==
    [method |-> "POST", endpoint |-> cl.endpoint, close |-> cl.closeReq,
     header |-> header, body |-> body]

\* ------------------------------------------------------------------ states
TypeOK ==
    /\ c \in {NewClient(f, s, x) : f \in BOOLEAN, s \in BOOLEAN, x \in BOOLEAN}
    /\ DOMAIN req = Procs
    /\ ctxDone \in [Procs -> BOOLEAN]
    /\ pc \in [Procs -> {"idle", "build", "json", "form", "formfiles", "spec",
                         "specfiles", "make", "done"}]
    /\ used \in [Procs -> SUBSET {"json", "form", "spec"}]
    /\ fi \in [Procs -> 0..(MaxFiles + 1)]
    /\ target \in [Procs -> {"old"} \cup DataValues]
    /\ \A p \in Procs : lastRes[p] \in Responses \cup {NoRes}

InitCall ==
    /\ ctxDone = [p \in Procs |-> FALSE]
    /\ used = [p \in Procs |-> {}]
    /\ fi = [p \in Procs |-> 0]
    /\ w = [p \in Procs |-> <<>>]
    /\ reads = [p \in Procs |-> <<>>]
    /\ calls = [p \in Procs |-> <<>>]
    /\ lastRes = [p \in Procs |-> NoRes]
    /\ target = [p \in Procs |-> "old"]
    /\ err = [p \in Procs |-> NoErr]

\* a Client built with any of the options, and caller "A" holding a
\* Request fresh from NewRequest
Init ==
    /\ \E f \in BOOLEAN, s \in BOOLEAN, x \in BOOLEAN : c = NewClient(f, s, x)
    /\ req = [p \in Procs |-> NewRequest(QueryOf(p))]
    /\ pc = [p \in Procs |-> IF p = "A" THEN "build" ELSE "idle"]
    /\ InitCall

\* ------------------------------------------- the caller builds its Request
Var(p) ==
    /\ pc[p] = "build"
    /\ \E key \in VarNames, value \in VarValues :
         req' = [req EXCEPT ![p] = WithVar(@, key, value)]
    /\ UNCHANGED <<c, ctxDone, pc, used, fi, w, reads, calls, lastRes, target, err>>

File(p) ==
    /\ pc[p] = "build"
    /\ Len(req[p].files) < MaxFiles
    /\ \E fieldname \in FieldNames, filename \in FileNames :
         req' = [req EXCEPT ![p] = WithFile(@, fieldname, filename)]
    /\ UNCHANGED <<c, ctxDone, pc, used, fi, w, reads, calls, lastRes, target, err>>

\* the caller sets an entry of req.Header
SetHeader(p) ==
    /\ pc[p] = "build"
    /\ \E i \in 1..Len(RawKeys), value \in HeaderValues :
         req' = [req EXCEPT ![p].Header[i] = <<value>>]
    /\ UNCHANGED <<c, ctxDone, pc, used, fi, w, reads, calls, lastRes, target, err>>

\* the caller's context is cancelled before Run is called
Cancel(p) ==
    /\ pc[p] = "build"
    /\ ~ctxDone[p]
    /\ ctxDone' = [ctxDone EXCEPT ![p] = TRUE]
    /\ UNCHANGED <<c, req, pc, used, fi, w, reads, calls, lastRes, target, err>>

\* ------------------------------------------------------------------- Run
Run(p) ==
    /\ pc[p] = "build"
    /\ LET e == PreFlight(c, req[p], ctxDone[p]) IN
         IF e # NoErr
         THEN /\ err' = [err EXCEPT ![p] = e]
              /\ pc' = [pc EXCEPT ![p] = "done"]
         ELSE /\ pc' = [pc EXCEPT ![p] = Dispatch(c, req[p])]
              /\ UNCHANGED err
    /\ UNCHANGED <<c, req, ctxDone, used, fi, w, reads, calls, lastRes, target>>

runWithJSON(p) ==
    /\ pc[p] = "json"
    /\ used' = [used EXCEPT ![p] = @ \cup {"json"}]
    /\ calls' = [calls EXCEPT ![p] =
                    Append(@, HTTPRequest(c, runWithJSONHeader(req[p]),
                                          runWithJSONBody(req[p])))]
    /\ \E res \in Responses :
         LET d == runWithJSONDecode(res, target[p]) IN
         /\ lastRes' = [lastRes EXCEPT ![p] = res]
         /\ target' = [target EXCEPT ![p] = d.target]
         /\ err' = [err EXCEPT ![p] = d.err]
    /\ pc' = [pc EXCEPT ![p] = "done"]
    /\ UNCHANGED <<c, req, ctxDone, fi, w, reads>>

\* runWithPostFields up to its loop over the files
runWithPostFields(p) ==
    /\ pc[p] = "form"
    /\ used' = [used EXCEPT ![p] = @ \cup {"form"}]
    /\ w' = [w EXCEPT ![p] = runWithPostFieldsHead(req[p])]
    /\ fi' = [fi EXCEPT ![p] = 1]
    /\ pc' = [pc EXCEPT ![p] = "formfiles"]
    /\ UNCHANGED <<c, req, ctxDone, reads, calls, lastRes, target, err>>

\* one round of the loop: the file's source is copied into its part, or the
\* copy fails and Run returns
runWithPostFieldsFile(p) ==
    /\ pc[p] = "formfiles"
    /\ fi[p] <= Len(req[p].files)
    /\ LET f == LoopFile(req[p], fi[p]) IN
         /\ reads' = [reads EXCEPT ![p] = Append(@, f.R)]
         /\ \E copied \in BOOLEAN :
              IF copied
              THEN /\ w' = [w EXCEPT ![p] = Append(@, FormFile(f))]
                   /\ fi' = [fi EXCEPT ![p] = @ + 1]
                   /\ UNCHANGED <<pc, err>>
              ELSE /\ err' = [err EXCEPT ![p] = Err("preparing file", 0, <<>>)]
                   /\ pc' = [pc EXCEPT ![p] = "done"]
                   /\ UNCHANGED <<w, fi>>
    /\ UNCHANGED <<c, req, ctxDone, used, calls, lastRes, target>>

\* after the loop: the writer is closed, body and content type are staged
runWithPostFieldsStage(p) ==
    /\ pc[p] = "formfiles"
    /\ fi[p] > Len(req[p].files)
    /\ req' = [req EXCEPT ![StagedOn(p)].body = [enc |-> "multipart", parts |-> w[p]],
                          ![StagedOn(p)].contentType = MultipartContentType]
    /\ pc' = [pc EXCEPT ![p] = "make"]
    /\ UNCHANGED <<c, ctxDone, used, fi, w, reads, calls, lastRes, target, err>>

\* runMultipartRequestSpec up to its loop over the files
runMultipartRequestSpec(p) ==
    /\ pc[p] = "spec"
    /\ used' = [used EXCEPT ![p] = @ \cup {"spec"}]
    /\ LET e == SpecVarsCheck(req[p]) IN
         IF e # NoErr
         THEN /\ err' = [err EXCEPT ![p] = e]
              /\ pc' = [pc EXCEPT ![p] = "done"]
              /\ UNCHANGED <<w, fi>>
         ELSE /\ w' = [w EXCEPT ![p] = runMultipartRequestSpecHead(req[p])]
              /\ fi' = [fi EXCEPT ![p] = 1]
              /\ pc' = [pc EXCEPT ![p] = "specfiles"]
              /\ UNCHANGED err
    /\ UNCHANGED <<c, req, ctxDone, reads, calls, lastRes, target>>

runMultipartRequestSpecFile(p) ==
    /\ pc[p] = "specfiles"
    /\ fi[p] <= Len(req[p].files)
    /\ LET f == LoopFile(req[p], fi[p]) IN
         /\ reads' = [reads EXCEPT ![p] = Append(@, f.R)]
         /\ \E copied \in BOOLEAN :
              IF copied
              THEN /\ w' = [w EXCEPT ![p] = @ \o <<FormFile(f), SpecField(f)>>]
                   /\ fi' = [fi EXCEPT ![p] = @ + 1]
                   /\ UNCHANGED <<pc, err>>
              ELSE /\ err' = [err EXCEPT ![p] = Err("preparing file", 0, <<>>)]
                   /\ pc' = [pc EXCEPT ![p] = "done"]
                   /\ UNCHANGED <<w, fi>>
    /\ UNCHANGED <<c, req, ctxDone, used, calls, lastRes, target>>

runMultipartRequestSpecStage(p) ==
    /\ pc[p] = "specfiles"
    /\ fi[p] > Len(req[p].files)
    /\ req' = [req EXCEPT ![StagedOn(p)].body = [enc |-> "multipart", parts |-> w[p]],
                          ![StagedOn(p)].contentType = MultipartContentType]
    /\ pc' = [pc EXCEPT ![p] = "make"]
    /\ UNCHANGED <<c, ctxDone, used, fi, w, reads, calls, lastRes, target, err>>

makeRequest(p) ==
    /\ pc[p] = "make"
    /\ calls' = [calls EXCEPT ![p] =
                    Append(@, HTTPRequest(c, makeRequestHeader(req[p]), req[p].body))]
    /\ \E res \in Responses :
         LET d == makeRequestDecode(res, target[p]) IN
         /\ lastRes' = [lastRes EXCEPT ![p] = res]
         /\ target' = [target EXCEPT ![p] = d.target]
         /\ err' = [err EXCEPT ![p] = d.err]
    /\ pc' = [pc EXCEPT ![p] = "done"]
    /\ UNCHANGED <<c, req, ctxDone, used, fi, w, reads>>

\* ---------------------------------------------------------- specifications
Call(p) ==
    \/ Run(p)
    \/ runWithJSON(p)
    \/ runWithPostFields(p)
    \/ runWithPostFieldsFile(p)
    \/ runWithPostFieldsStage(p)
    \/ runMultipartRequestSpec(p)
    \/ runMultipartRequestSpecFile(p)
    \/ runMultipartRequestSpecStage(p)
    \/ makeRequest(p)

Next ==
    \E p \in Procs :
        \/ Var(p)
        \/ File(p)
        \/ SetHeader(p)
        \/ Cancel(p)
        \/ Call(p)

Spec == Init /\ [][Next]_vars

\* Two callers at once on the shared Client, each with a Request of its own
\* that it has finished building: without files or variables, with a
\* variable, with one file, with two files.
Prepared(p) ==
    LET r == NewRequest(QueryOf(p)) IN
    {r,
     WithVar(r, "key", "value"),
     WithFile(r, "file", "a.txt"),
     WithFile(WithFile(r, "file", "a.txt"), "doc", "a.txt")}

InitConc ==
    /\ \E f \in BOOLEAN, s \in BOOLEAN, x \in BOOLEAN : c = NewClient(f, s, x)
    /\ req \in {r \in [Procs -> UNION {Prepared(p) : p \in Procs}] :
                  \A p \in Procs : r[p] \in Prepared(p)}
    /\ pc = [p \in Procs |-> "build"]
    /\ InitCall

NextConc == \E p \in Procs : Call(p)

SpecConc == InitConc /\ [][NextConc]_vars

\* ------------------------------------------------------------------ claims
Done(p) == pc[p] = "done"
NFiles(p) == Len(req[p].files)
NoMode == ~(c.useMultipartForm \/ c.useMultipartRequestSpec)
NothingStaged(p) == req[p].body = EmptyBody /\ req[p].contentType = ""
ContextErr == Err("context canceled", 0, <<>>)
FilesErr == Err("cannot send files with PostFields option", 0, <<>>)
VarsErr == Err("variables doesn't supported due to the multipart request spec", 0, <<>>)

\* C1: a Run whose context was cancelled when it was called returns the
\* context's error and has done no I/O: the transport was not invoked, no
\* byte source was read, no encoder was entered and nothing is staged on
\* the Request.
C1_CancelledNoIO ==
    \A p \in Procs :
        (Done(p) /\ ctxDone[p]) =>
            /\ err[p] = ContextErr
            /\ calls[p] = <<>>
            /\ reads[p] = <<>>
            /\ used[p] = {}
            /\ NothingStaged(p)

\* a cancelled Run on a Request with files and variables, on a Client that
\* would have encoded it
C1_Witness ==
    \E p \in Procs :
        /\ Done(p) /\ ctxDone[p]
        /\ c.useMultipartForm
        /\ NFiles(p) > 0 /\ LenVars(req[p].vars) > 0

\* C2: a Run on a Request with at least one file, on a Client with neither
\* multipart mode, fails without the transport being invoked or a source
\* being read; the error is the configuration error (the context's error
\* when the context was already cancelled, which Run checks first).
C2_FilesNeedMode ==
    \A p \in Procs :
        (Done(p) /\ NFiles(p) > 0 /\ NoMode) =>
            /\ err[p] = IF ctxDone[p] THEN ContextErr ELSE FilesErr
            /\ calls[p] = <<>>
            /\ reads[p] = <<>>
            /\ NothingStaged(p)

C2_Witness ==
    \E p \in Procs :
        Done(p) /\ NFiles(p) > 1 /\ NoMode /\ ~ctxDone[p] /\ err[p] = FilesErr

\* the strategy the claim's priority list gives
Chosen(p) ==
    CASE c.useMultipartForm -> "form"
      [] ~c.useMultipartForm /\ c.useMultipartRequestSpec /\ NFiles(p) > 0 -> "spec"
      [] ~c.useMultipartForm /\ c.useMultipartRequestSpec /\ NFiles(p) = 0 -> "json"
      [] NoMode -> "json"

PartNames(body) == {body.parts[i].name : i \in 1..Len(body.parts)}

\* the body is of strategy s and of no other
BodyOf(body, s) ==
    CASE s = "json" ->
            /\ body.enc = "json" /\ Len(body.parts) = 1
            /\ body.parts[1].json.shape = "query+variables"
      [] s = "form" ->
            /\ body.enc = "multipart" /\ body.parts[1].name = "query"
            /\ {"operations", "map"} \cap PartNames(body) = {}
      [] s = "spec" ->
            /\ body.enc = "multipart"
            /\ body.parts[1].name = "operations" /\ body.parts[2].name = "map"
            /\ {"query", "variables"} \cap PartNames(body) = {}

\* C3: a Run that passes the pre-flight checks enters exactly one encoder,
\* the one the priority list gives (multipart-form if enabled, else
\* upload-spec if enabled and files are present, else plain JSON); no call
\* enters two, and the body posted is that strategy's alone.
C3_OneStrategy ==
    \A p \in Procs :
        /\ Cardinality(used[p]) <= 1
        /\ used[p] # {} => used[p] = {Chosen(p)}
        /\ (pc[p] \notin {"idle", "build"} /\ err[p] \notin {ContextErr, FilesErr})
              => (used[p] = {Chosen(p)} \/ pc[p] = Chosen(p))
        /\ \A k \in 1..Len(calls[p]) : BodyOf(calls[p][k].body, Chosen(p))

\* both modes enabled and no files: multipart-form was used and posted
C3_Witness ==
    \E p \in Procs :
        /\ Done(p) /\ Len(calls[p]) = 1
        /\ c.useMultipartForm /\ c.useMultipartRequestSpec
        /\ NFiles(p) = 0 /\ used[p] = {"form"}

\* the operations and map fields the upload-spec encoder wrote
SpecWritten(p) == used[p] = {"spec"} /\ Len(w[p]) >= 2

\* C4: the map field of the upload-spec strategy holds, for one file,
\* {field: ["variables.file"]} and, for N >= 2 files, the entry
\* f_i.field: ["variables.files.i"] for every i in 0..N-1; the variables
\* of operations hold one null per file.
C4_MapEveryFile ==
    \A p \in Procs :
        SpecWritten(p) =>
            LET ops == w[p][1].json
                m == w[p][2].json.map
                N == NFiles(p)
            IN  /\ N = 1 => /\ m = {<<req[p].files[1].Field, <<"variables.file">>>>}
                            /\ ops.shape = "file" /\ ops.n = 1
                /\ N >= 2 => /\ \A i \in 0..(N - 1) :
                                  <<req[p].files[i + 1].Field,
                                    <<"variables.files." \o Itoa(i)>>>> \in m
                             /\ ops.shape = "files" /\ ops.n = N

\* C5 as stated: with upload-spec mode enabled, a Run on a Request with a
\* variable and a file fails with the configuration error before any
\* network call, whatever the Client's other options (taken for a context
\* that is not cancelled and byte sources that read without error).
C5_Original ==
    \A p \in Procs :
        (Done(p) /\ ~ctxDone[p] /\ c.useMultipartRequestSpec
           /\ LenVars(req[p].vars) > 0 /\ NFiles(p) > 0
           /\ err[p] # Err("preparing file", 0, <<>>)) =>
            (err[p] = VarsErr /\ calls[p] = <<>>)

\* C5 amended: the same with multipart-form mode not enabled, for either
\* value of the close flag; a cancelled context gives the context's error
\* instead, again with no network call.
C5_VarsWithFiles ==
    \A p \in Procs :
        (Done(p) /\ c.useMultipartRequestSpec /\ ~c.useMultipartForm
           /\ LenVars(req[p].vars) > 0 /\ NFiles(p) > 0) =>
            /\ err[p] = IF ctxDone[p] THEN ContextErr ELSE VarsErr
            /\ calls[p] = <<>>
            /\ reads[p] = <<>>
            /\ NothingStaged(p)

C5_Witness ==
    \E p \in Procs :
        /\ Done(p) /\ ~ctxDone[p]
        /\ c.useMultipartRequestSpec /\ ~c.useMultipartForm /\ c.closeReq
        /\ LenVars(req[p].vars) > 0 /\ NFiles(p) > 0
        /\ err[p] = VarsErr

C7_Original ==
    \A p \in Procs :
        (Done(p) /\ lastRes[p].kind = "invalid") =>
            err[p] = IF lastRes[p].status < 200 \/ lastRes[p].status > 299
                     THEN Err("non-200 status code", lastRes[p].status, <<>>)
                     ELSE Err("decoding response", 0, <<>>)

\* C7 amended: when decoding the body fails, Run returns the non-200
\* error for every status other than 200 (201 included) and the generic
\* decode error for status 200, alike in the plain JSON path and in the
\* shared multipart routine.
C7_DecodeFailure ==
    \A p \in Procs :
        (Done(p) /\ lastRes[p].kind = "invalid") =>
            /\ used[p] \in {{"json"}, {"form"}, {"spec"}}
            /\ err[p] = IF lastRes[p].status = 200
                        THEN Err("decoding response", 0, <<>>)
                        ELSE Err("non-200 status code", lastRes[p].status, <<>>)

C7_Witness ==
    \E p \in Procs :
        /\ Done(p) /\ used[p] = {"json"}
        /\ lastRes[p].kind = "invalid" /\ lastRes[p].status = 201
        /\ err[p] = Err("non-200 status code", 201, <<>>)

Values(seq) == {seq[i] : i \in 1..Len(seq)}

\* C8: on every HTTP request sent, Content-Type is still the strategy's
\* content type and Accept is still application/json; charset=utf-8, and
\* every custom header value is present under its key, also for custom
\* entries keyed Content-Type or Accept; in all three strategies.
C8_Headers ==
    \A p \in Procs : \A k \in 1..Len(calls[p]) :
        LET h == calls[p][k].header IN
        /\ HeaderGet(h, "Content-Type") =
              IF used[p] = {"json"} THEN JSONContentType ELSE MultipartContentType
        /\ HeaderGet(h, "Accept") = JSONContentType
        /\ \A i \in 1..Len(RawKeys) :
              Values(req[p].Header[i]) \subseteq Values(h[CanonicalMIMEHeaderKey(RawKeys[i])])

\* a multipart request sent with custom content-type, Accept and X-Id
C8_Witness ==
    \E p \in Procs :
        /\ Len(calls[p]) = 1 /\ used[p] = {"form"}
        /\ \A i \in 1..Len(RawKeys) : req[p].Header[i] # <<>>
        /\ Len(calls[p][1].header["Content-Type"]) = 2

\* the parts of the files i..N of r, as the encoder s writes them
RECURSIVE FileParts(_, _, _)
FileParts(r, s, i) ==
    IF i > Len(r.files) THEN <<>>
    ELSE (IF s = "form" THEN <<FormFile(r.files[i])>>
          ELSE <<FormFile(r.files[i]), SpecField(r.files[i])>>)
         \o FileParts(r, s, i + 1)

\* the body serialized from r by strategy s
Serialized(r, s) ==
    CASE s = "json" -> runWithJSONBody(r)
      [] s = "form" -> [enc |-> "multipart",
                        parts |-> runWithPostFieldsHead(r) \o FileParts(r, s, 1)]
      [] s = "spec" -> [enc |-> "multipart",
                        parts |-> runMultipartRequestSpecHead(r) \o FileParts(r, s, 1)]

OwnState(p) ==
    /\ \A k \in 1..Len(calls[p]) :
          /\ calls[p][k].body = Serialized(req[p], Chosen(p))
          /\ HeaderGet(calls[p][k].header, "Content-Type") =
                IF Chosen(p) = "json" THEN JSONContentType ELSE MultipartContentType
          /\ calls[p][k].endpoint = c.endpoint
          /\ calls[p][k].close = c.closeReq
    /\ \/ NothingStaged(p) /\ pc[p] # "make" /\ (calls[p] = <<>> \/ Chosen(p) = "json")
       \/ /\ Chosen(p) # "json" /\ pc[p] \in {"make", "done"}
          /\ req[p].body = Serialized(req[p], Chosen(p))
          /\ req[p].contentType = MultipartContentType
    /\ target[p] = IF Done(p) /\ lastRes[p].kind = "envelope"
                      /\ lastRes[p].data # "none"
                   THEN lastRes[p].data ELSE "old"

\* C9: in every interleaving of two concurrent Run calls on the shared
\* Client, each with its own Request: each call posts the body and content
\* type serialized from its own Request, leaves its own response's data in
\* its own target, stages only on its own Request, and no step changes the
\* Client or any other field of a Request.
C9_NoSharedState ==
    /\ [](\A p \in Procs : OwnState(p))
    /\ [][/\ c' = c
          /\ \A p \in Procs :
                /\ req'[p].q = req[p].q /\ req'[p].vars = req[p].vars
                /\ req'[p].files = req[p].files /\ req'[p].Header = req[p].Header
                /\ (req'[p] # req[p]) => (pc[p] # pc'[p])]_vars

\* both calls have staged a multipart body and neither has posted yet
C9_Witness ==
    /\ pc["A"] = "make" /\ pc["B"] = "make"
    /\ req["A"].body # req["B"].body
    /\ NFiles("A") > 0 /\ NFiles("B") > 0

PrePostErrs ==
    {ContextErr, FilesErr, VarsErr, Err("preparing file", 0, <<>>)}

\* the byte sources whose bytes are in the body, in the body's order
RECURSIVE Sources(_)
Sources(parts) ==
    IF parts = <<>> THEN <<>>
    ELSE (IF Head(parts).src # 0 THEN <<Head(parts).src>> ELSE <<>>)
         \o Sources(Tail(parts))

\* C10: within one Run no byte source is read twice and the sources are
\* read in declaration order; the transport is invoked at most once, and
\* when it is invoked every source has been read exactly once and the body
\* posted holds the files in that order; a Run that returns without a
\* pre-flight, configuration or file-copy error has made exactly one
\* round trip.
C10_ReadOnce ==
    \A p \in Procs :
        /\ Len(reads[p]) <= NFiles(p)
        /\ \A j \in 1..Len(reads[p]) : reads[p][j] = req[p].files[j].R
        /\ Len(calls[p]) <= 1
        /\ calls[p] # <<>> =>
              /\ used[p] # {"json"} => Len(reads[p]) = NFiles(p)
              /\ Sources(calls[p][1].body.parts) = reads[p]
        /\ (Done(p) /\ err[p] \notin PrePostErrs) => Len(calls[p]) = 1

\* three files posted by the upload-spec strategy
C10_Witness ==
    \E p \in Procs :
        /\ Done(p) /\ used[p] = {"spec"} /\ NFiles(p) >= 3
        /\ Len(calls[p]) = 1 /\ reads[p] = <<1, 2, 3>>

====
